---- MODULE Spec2Model ----
(***************************************************************************)
(* Background synchronisation engine of the Notebook Scanner plugin:       *)
(* JobPoller (scheduler), SyncStateManager (ledger) and the plugin's        *)
(* persistence callback, which saves the plugin data and then restarts or  *)
(* stops the poller.                                                        *)
(*                                                                         *)
(* JavaScript runs one handler at a time; a handler gives up control only  *)
(* at an await of real I/O (getJobs, getResult, createNote, saveData).     *)
(* Every action below is one such run-to-suspension step.                  *)
(***************************************************************************)
EXTENDS Integers, Sequences, FiniteSets, TLC

\* ---------------------------------------------------------------- bounds
MaxTimers == 2          \* armed window timers kept in the model
MaxTasks  == 2          \* sync cycles that may be in flight at once
MaxSaves  == 1          \* detached saveData calls pending at once
MaxErrors == 6          \* cap of the consecutive-error counter in the model
MaxTicks  == 2          \* clock advances
MaxN      == 8
MaxFiles  == 3
MaxWrites == 2
MaxNotes == 102
MaxCreateFailures == 1
MaxTitleLen == 4        \* longest title enumerated in full

\* ------------------------------------------------------ program constants
MAX_CONSECUTIVE_ERRORS == 5
BASE_BACKOFF_MS == 5000
MAX_BACKOFF_MS == 300000
MIN_POLL_INTERVAL == 10000
MAX_POLL_INTERVAL == 300000
SYNC_STATE_RETENTION_DAYS == 30
MAX_FILE_SIZE == 20 * 1024 * 1024
MAX_BATCH_SIZE == 50
HoursPerDay == 24
\* getUniquePath: `if (counter > 100) throw`.
COUNTER_LIMIT == 100
\* generateFilename: `if (filename.length > 100)`.
MAX_FILENAME_LENGTH == 100

\* ------------------------------------------------------------ input sets
JobIds == {1, 2}
Paths == {"a.md"}
Intervals == {30000}     \* configured poll interval of the scheduler runs (the default)
ClockStep == 15 * HoursPerDay        \* hours the clock advances in one Tick (15 days)
Null == 0               \* intervalId === null
Stale == -1             \* an intervalId whose timer is no longer armed
NoTime == -1            \* lastSyncTime === null

Min(a, b) == IF a < b THEN a ELSE b
Max(a, b) == IF a > b THEN a ELSE b

RECURSIVE Pow2(_)
Pow2(n) == IF n <= 0 THEN 1 ELSE 2 * Pow2(n - 1)

\* Job lists the remote can return: ids are server-assigned and unique.
JobLists ==
  {<<>>} \cup {<<a>> : a \in JobIds}
         \cup {l \in {<<a, b>> : a \in JobIds, b \in JobIds} : l[1] # l[2]}

VARIABLES
  poller,         \* JobPoller fields
  timers,         \* handles of the armed window timers
  lastDelay,      \* delay passed to the latest window.setTimeout call
  settings,       \* PluginSettings: [autoSync, pollInterval]
  tasks,          \* in-flight sync cycles, by slot
  state,          \* SyncStateManager.state: [syncedJobs, lastSyncTime]
  defaultJobs,    \* contents of the DEFAULT_SYNC_STATE.syncedJobs array
  shared,         \* state.syncedJobs is the DEFAULT_SYNC_STATE.syncedJobs array
  now,            \* wall clock, hours
  saves,          \* detached saveData calls in flight (prune, removeSynced, settings tab)
  createCount,    \* history: successful createNote calls per job id (saturates at 2)
  lastOp,         \* history: the latest direct call of a SyncStateManager method
  upload,         \* one SyncClient.uploadImages call: its locals and the requests it made
  store,          \* the data file and the saveData calls of the ledger still in flight
  notes,          \* NoteCreator.createNote calls into one folder for one base name
  rq,             \* one SyncClient.request call, or one parseApiError call: inputs and outcome
  log,            \* history: the SyncResult the latest finished cycle returned (kept when log.on)
  del,            \* one run of QueueModal.handleDeleteJob: the vault, the shown list, the backend
  fn              \* one NoteCreator.generateFilename call: its inputs and the name it returned

vars == <<poller, timers, lastDelay, settings, tasks, state, defaultJobs, shared, now, saves, createCount, lastOp, upload, store, notes, rq, log, del, fn>>

\* ======================================================= SyncStateManager
\* A ledger value: the manager's state object, the module-level default
\* array, and whether state.syncedJobs is that very array.
Ledger == [syncedJobs |-> state.syncedJobs, lastSyncTime |-> state.lastSyncTime,
           defaultJobs |-> defaultJobs, shared |-> shared]

SetLedger(L) ==
  /\ state' = [syncedJobs |-> L.syncedJobs, lastSyncTime |-> L.lastSyncTime]
  /\ defaultJobs' = L.defaultJobs
  /\ shared' = L.shared

RECURSIVE FilterOutId(_, _)
\* syncedJobs.filter((job) => job.jobId !== jobId)
FilterOutId(s, jobId) ==
  IF s = <<>> THEN <<>>
  ELSE IF Head(s).jobId # jobId THEN <<Head(s)>> \o FilterOutId(Tail(s), jobId)
       ELSE FilterOutId(Tail(s), jobId)

RECURSIVE FilterNewer(_, _)
\* syncedJobs.filter((job) => new Date(job.syncedAt).getTime() > cutoff)
FilterNewer(s, cutoff) ==
  IF s = <<>> THEN <<>>
  ELSE IF Head(s).syncedAt > cutoff THEN <<Head(s)>> \o FilterNewer(Tail(s), cutoff)
       ELSE FilterNewer(Tail(s), cutoff)

isSyncedIn(jobs, jobId) == \E k \in 1..Len(jobs) : jobs[k].jobId = jobId

isSynced(L, jobId) == isSyncedIn(L.syncedJobs, jobId)

\* Variant: markSynced without its duplicate check.
markSyncedNoCheck(L, jobId, notePath, t) ==
  LET rec == [jobId |-> jobId, syncedAt |-> t, notePath |-> notePath] IN
  [L EXCEPT !.syncedJobs = Append(@, rec),
            !.defaultJobs = IF L.shared THEN Append(@, rec) ELSE @,
            !.lastSyncTime = t]

\* Variant: a duplicate mark that refreshes lastSyncTime.
markSyncedTouch(L, jobId, notePath, t) ==
  IF isSynced(L, jobId) THEN [L EXCEPT !.lastSyncTime = t]
  ELSE LET rec == [jobId |-> jobId, syncedAt |-> t, notePath |-> notePath] IN
       [L EXCEPT !.syncedJobs = Append(@, rec),
                 !.defaultJobs = IF L.shared THEN Append(@, rec) ELSE @,
                 !.lastSyncTime = t]

\* Variant: markSynced that records a path of its own.
markSyncedOtherPath(L, jobId, notePath, t) ==
  IF isSynced(L, jobId) THEN L
  ELSE LET rec == [jobId |-> jobId, syncedAt |-> t, notePath |-> "lost.md"] IN
       [L EXCEPT !.syncedJobs = Append(@, rec),
                 !.defaultJobs = IF L.shared THEN Append(@, rec) ELSE @,
                 !.lastSyncTime = t]

\* The synchronous part of markSynced: everything before `await this.persist()`.
markSynced(L, jobId, notePath, t) ==
  IF isSynced(L, jobId) THEN L
  ELSE LET rec == [jobId |-> jobId, syncedAt |-> t, notePath |-> notePath] IN
       [L EXCEPT !.syncedJobs = Append(@, rec),
                 !.defaultJobs = IF L.shared THEN Append(@, rec) ELSE @,
                 !.lastSyncTime = t]

\* markSynced reaches `await this.persist()` exactly when it pushed a record.
markSyncedPersists(L, jobId) == ~isSynced(L, jobId)

RECURSIVE markMultipleSynced(_, _, _)
markMultipleSynced(L, jobs, t) ==
  IF jobs = <<>> THEN [L EXCEPT !.lastSyncTime = t]
  ELSE LET j == Head(jobs)
           rec == [jobId |-> j.jobId, syncedAt |-> t, notePath |-> j.notePath]
           L1 == IF isSynced(L, j.jobId) THEN L
                 ELSE [L EXCEPT !.syncedJobs = Append(@, rec),
                                !.defaultJobs = IF L.shared THEN Append(@, rec) ELSE @]
       IN markMultipleSynced(L1, Tail(jobs), t)

\* Variant: removeSynced that forgets every record.
removeSyncedClears(L, jobId) ==
  [L EXCEPT !.syncedJobs = <<>>, !.shared = FALSE]

\* filter() builds a new array, so the state no longer shares the default one.
removeSynced(L, jobId) ==
  [L EXCEPT !.syncedJobs = FilterOutId(@, jobId), !.shared = FALSE]

\* removeSynced reaches `await this.persist()` on every call: the filter is
\* followed by the write with no test of whether a record was removed.
removeSyncedPersists(L, jobId) == TRUE

\* Variant: prune that forgets every record.
pruneDropsAll(L, olderThanDays, t) ==
  [L EXCEPT !.syncedJobs = <<>>, !.shared = FALSE]

prune(L, olderThanDays, t) ==
  LET cutoff == t - olderThanDays * HoursPerDay IN
  [L EXCEPT !.syncedJobs = FilterNewer(@, cutoff), !.shared = FALSE]

prunedCount(L, olderThanDays, t) ==
  Len(L.syncedJobs) - Len(prune(L, olderThanDays, t).syncedJobs)

\* Variant: prune persists whether or not it removed anything.
prunePersistsAlways(L, olderThanDays, t) == TRUE

\* prune reaches `await this.persist()` only when it removed something.
prunePersists(L, olderThanDays, t) == prunedCount(L, olderThanDays, t) > 0

\* this.state = { ...DEFAULT_SYNC_STATE }: a shallow copy, so syncedJobs is
\* the default array itself, with whatever was pushed into it.
clear(L) ==
  [L EXCEPT !.syncedJobs = L.defaultJobs, !.lastSyncTime = NoTime, !.shared = TRUE]

\* ================================================================ JobPoller
\* A scheduler value: the poller's fields and the window's armed timers.
Sched == [p |-> poller, ts |-> timers, d |-> lastDelay]

\* Timer handles are opaque numbers: states are kept up to their renaming.
\* The armed timers are renamed 1..k, the one intervalId holds first; an
\* intervalId whose timer fired or was never armed again becomes Stale.
Canon(S) ==
  [S EXCEPT !.ts = 1..Cardinality(S.ts),
            !.p.intervalId = IF S.p.intervalId = Null THEN Null
                             ELSE IF S.p.intervalId \in S.ts THEN 1 ELSE Stale]

SetSched(S) ==
  /\ Cardinality(S.ts) <= MaxTimers
  /\ poller' = Canon(S).p
  /\ timers' = Canon(S).ts
  /\ lastDelay' = S.d

\* window.setTimeout returns a handle no armed timer has.
NewTimerId(ts) == CHOOSE i \in 1..(Cardinality(ts) + 1) : i \notin ts

\* Variant: the backoff without its 5 minute cap.
BackoffUncapped(n) == BASE_BACKOFF_MS * Pow2(n - 1)

Backoff(n) == Min(BASE_BACKOFF_MS * Pow2(n - 1), MAX_BACKOFF_MS)

\* Variant: the backoff alone, without the configured interval as a floor.
DelayBackoffOnly(pollInterval, n) ==
  IF n > 0 THEN Backoff(n) ELSE pollInterval

\* The delay scheduleNextPoll computes.
Delay(pollInterval, n) ==
  IF n > 0 THEN Max(pollInterval, Backoff(n)) ELSE pollInterval

scheduleNextPoll(S, st) ==
  LET id == NewTimerId(S.ts)
      delay == Delay(st.pollInterval, S.p.consecutiveErrors)
  IN [p |-> [S.p EXCEPT !.intervalId = id], ts |-> S.ts \cup {id}, d |-> delay]

start(S, st) ==
  IF S.p.intervalId # Null THEN S
  ELSE IF ~st.autoSync THEN S
  ELSE scheduleNextPoll(S, st)

\* clearTimeout of a handle that already fired is a no-op.
stop(S) ==
  IF S.p.intervalId # Null
  THEN [S EXCEPT !.p.intervalId = Null, !.ts = @ \ {S.p.intervalId}]
  ELSE S

restart(S, st) ==
  LET S1 == stop(S)
      S2 == [S1 EXCEPT !.p.consecutiveErrors = 0, !.p.isStopped = FALSE]
  IN start(S2, st)

resumeAfterError(S, st) ==
  IF ~S.p.isStopped THEN S
  ELSE start([S EXCEPT !.p.consecutiveErrors = 0, !.p.isStopped = FALSE], st)

\* Variant: poll() whose guard does not look at isPaused.
pollGuardIgnoresPause(S, st) ==
  IF S.p.isPolling THEN "skip"
  ELSE IF ~st.autoSync THEN "off"
  ELSE "run"

isRunning(S) == S.p.intervalId # Null

\* poll(): the guard at its head. "skip" re-arms, "off" returns, "run" starts a cycle.
pollGuard(S, st) ==
  IF S.p.isPaused \/ S.p.isPolling THEN "skip"
  ELSE IF ~st.autoSync THEN "off"
  ELSE "run"

\* Variant: a successful cycle that leaves the error counter alone.
pollSucceededNoReset(S) == S

\* poll(): the try block after syncCompletedJobs resolved, up to the callback.
pollSucceeded(S) == [S EXCEPT !.p.consecutiveErrors = 0]

\* poll(): the catch block.
pollFailed(S) ==
  LET n == S.p.consecutiveErrors + 1
      S1 == [S EXCEPT !.p.consecutiveErrors = n]
  IN IF n >= MAX_CONSECUTIVE_ERRORS THEN [S1 EXCEPT !.p.isStopped = TRUE] ELSE S1

\* Variant: a finally block that releases the guard without arming a timer.
pollFinallyNoRearm(S, st) == [S EXCEPT !.p.isPolling = FALSE]

\* poll(): the finally block; it runs after the try and after the catch,
\* the catch's early return included.
pollFinally(S, st) == scheduleNextPoll([S EXCEPT !.p.isPolling = FALSE], st)

\* Variant: syncNow without its finally block.
syncNowFinallySkipped(S) == S

\* Variant: syncNow without its isPolling check.
syncNowGuardOpen(S) == TRUE

\* syncNow(): the guard at its head.
syncNowGuard(S) == ~S.p.isPolling

\* syncNow(): the finally block.
syncNowFinally(S) == [S EXCEPT !.p.isPolling = FALSE]

\* main.ts saveSettings() after `await this.saveData(data)`.
afterSaveData(S, st) == IF st.autoSync THEN restart(S, st) ELSE stop(S)

\* ============================================================ sync cycles
Slots == 1..MaxTasks

IdleTask == [kind |-> "none", pc |-> "idle", listed |-> <<>>, jobs |-> <<>>,
             i |-> 0, results |-> <<>>, path |-> ""]

Active(t) == tasks[t].pc # "idle"

FreeSlot == CHOOSE t \in Slots : ~Active(t) /\ \A u \in 1..(t - 1) : Active(u)

\* A cycle begins: syncCompletedJobs() runs up to `await getJobs('completed')`.
NewTask(kind) == [IdleTask EXCEPT !.kind = kind, !.pc = "getJobs"]

\* Variant: the list is not filtered against the ledger.
UnsyncedNoFilter(L, list) == list

RECURSIVE Unsynced(_, _)
\* completedJobs.filter((job) => !isSynced(job.id))
Unsynced(L, list) ==
  IF list = <<>> THEN <<>>
  ELSE IF ~isSynced(L, Head(list)) THEN <<Head(list)>> \o Unsynced(L, Tail(list))
       ELSE Unsynced(L, Tail(list))

CurJob(t) == tasks[t].jobs[tasks[t].i]

\* handleSyncComplete: with probability 0.1 calls prune(); prune filters at
\* once and, when something was removed, starts a save nobody awaits.
SyncCompleteCallback(L, sv, doPrune) ==
  IF doPrune
  THEN [L |-> prune(L, SYNC_STATE_RETENTION_DAYS, now),
        sv |-> IF prunedCount(L, SYNC_STATE_RETENTION_DAYS, now) > 0 THEN sv + 1 ELSE sv]
  ELSE [L |-> L, sv |-> sv]

\* Variant: every entry is counted as synced.
SyncResultOfAll(results) ==
  [syncedCount |-> Len(results), failedCount |-> 0, results |-> results]

\* syncCompletedJobs(): the SyncResult it builds from `results`.
SyncResultOf(results) ==
  [syncedCount |-> Len(SelectSeq(results, LAMBDA r : r.success)),
   failedCount |-> Len(SelectSeq(results, LAMBDA r : ~r.success)),
   results |-> results]

\* The cycle that listed `listed` and kept `jobs` returns SyncResultOf(results).
Logged(listed, jobs, results) ==
  IF log.on
  THEN [log EXCEPT !.flip = ~@, !.error = "none", !.listed = listed, !.jobs = jobs,
                   !.result = SyncResultOf(results)]
  ELSE log

\* syncCompletedJobs() returns to its caller: poll() or syncNow().
Complete(t, S, L, sv) ==
  /\ tasks' = [tasks EXCEPT ![t] = IdleTask]
  /\ IF tasks[t].kind = "poll"
     THEN \E doPrune \in BOOLEAN :
            LET cb == SyncCompleteCallback(L, sv, doPrune) IN
            /\ cb.sv <= MaxSaves
            /\ SetSched(pollFinally(pollSucceeded(S), settings))
            /\ SetLedger(cb.L)
            /\ saves' = cb.sv
     ELSE /\ SetSched(syncNowFinally(S))
          /\ SetLedger(L)
          /\ saves' = sv

\* Variant: a failed job ends the loop.
AdvanceAbort(t, entry, S, L, sv) ==
  LET tk == tasks[t] IN
  IF tk.i < Len(tk.jobs) /\ entry.success
  THEN /\ tasks' = [tasks EXCEPT ![t] = [tk EXCEPT !.i = tk.i + 1, !.pc = "getResult",
                                                   !.results = Append(tk.results, entry),
                                                   !.path = ""]]
       /\ SetSched(S)
       /\ SetLedger(L)
       /\ saves' = sv
       /\ log' = log
  ELSE /\ Complete(t, S, L, sv)
       /\ log' = Logged(tk.listed, tk.jobs, Append(tk.results, entry))

\* syncJob() returned `entry` for the current job: the loop pushes it and
\* goes on to the next job, or the cycle ends.
Advance(t, entry, S, L, sv) ==
  LET tk == tasks[t] IN
  IF tk.i < Len(tk.jobs)
  THEN /\ tasks' = [tasks EXCEPT ![t] = [tk EXCEPT !.i = tk.i + 1, !.pc = "getResult",
                                                   !.results = Append(tk.results, entry),
                                                   !.path = ""]]
       /\ SetSched(S)
       /\ SetLedger(L)
       /\ saves' = sv
       /\ log' = log
  ELSE /\ Complete(t, S, L, sv)
       /\ log' = Logged(tk.listed, tk.jobs, Append(tk.results, entry))

Ok(jobId) == [jobId |-> jobId, success |-> TRUE]
Failed(jobId) == [jobId |-> jobId, success |-> FALSE]

\* ---------------------------------------------------------------- actions
\* A timer fires and runs poll().
TimerFires ==
  \E tm \in timers :
    LET S == [Sched EXCEPT !.ts = @ \ {tm}]
        g == pollGuard(S, settings)
    IN /\ CASE g = "skip" -> SetSched(scheduleNextPoll(S, settings)) /\ UNCHANGED tasks
            [] g = "off"  -> SetSched(S) /\ UNCHANGED tasks
            [] OTHER      -> /\ \E t \in Slots : ~Active(t)
                             /\ SetSched([S EXCEPT !.p.isPolling = TRUE])
                             /\ tasks' = [tasks EXCEPT ![FreeSlot] = NewTask("poll")]
       /\ UNCHANGED <<settings, state, defaultJobs, shared, now, saves, createCount, lastOp, upload, store, notes, rq, log, del, fn>>

\* The "Sync Now" command: JobPoller.syncNow().
SyncNow ==
  /\ IF syncNowGuard(Sched)
     THEN /\ \E t \in Slots : ~Active(t)
          /\ SetSched([Sched EXCEPT !.p.isPolling = TRUE])
          /\ tasks' = [tasks EXCEPT ![FreeSlot] = NewTask("syncNow")]
     ELSE UNCHANGED <<poller, timers, lastDelay, tasks>>
  /\ UNCHANGED <<settings, state, defaultJobs, shared, now, saves, createCount, lastOp, upload, store, notes, rq, log, del, fn>>

\* getJobs('completed') resolves with a list.
GetJobsOk ==
  \E t \in Slots, list \in JobLists :
    /\ tasks[t].pc = "getJobs"
    /\ LET unsynced == Unsynced(Ledger, list) IN
       IF unsynced = <<>>
       THEN /\ Complete(t, Sched, Ledger, saves)
            /\ log' = Logged(list, unsynced, <<>>)
       ELSE /\ tasks' = [tasks EXCEPT ![t] = [@ EXCEPT !.listed = list, !.jobs = unsynced,
                                                       !.i = 1, !.pc = "getResult"]]
            /\ UNCHANGED <<poller, timers, lastDelay, state, defaultJobs, shared, saves, log>>
    /\ UNCHANGED <<settings, now, createCount, lastOp, upload, store, notes, rq, del, fn>>

\* getJobs('completed') rejects: the cycle fails as a whole.
GetJobsFail ==
  \E t \in Slots :
    /\ tasks[t].pc = "getJobs"
    /\ tasks' = [tasks EXCEPT ![t] = IdleTask]
    /\ log' = IF log.on THEN [log EXCEPT !.error = tasks[t].kind] ELSE log
    /\ IF tasks[t].kind = "poll"
       THEN /\ poller.consecutiveErrors < MaxErrors
            /\ SetSched(pollFinally(pollFailed(Sched), settings))
       ELSE SetSched(syncNowFinally(Sched))
    /\ UNCHANGED <<settings, state, defaultJobs, shared, now, saves, createCount, lastOp, upload, store, notes, rq, del, fn>>

GetResultOk ==
  \E t \in Slots :
    /\ tasks[t].pc = "getResult"
    /\ tasks' = [tasks EXCEPT ![t].pc = "createNote"]
    /\ UNCHANGED <<poller, timers, lastDelay, settings, state, defaultJobs, shared, now, saves, createCount, lastOp, upload, store, notes, rq, log, del, fn>>

\* Variant: syncJob without its try/catch, so a failed fetch fails the cycle.
GetResultFailPropagates ==
  \E t \in Slots :
    /\ tasks[t].pc = "getResult"
    /\ tasks' = [tasks EXCEPT ![t] = IdleTask]
    /\ IF tasks[t].kind = "poll"
       THEN /\ poller.consecutiveErrors < MaxErrors
            /\ SetSched(pollFinally(pollFailed(Sched), settings))
       ELSE SetSched(syncNowFinally(Sched))
    /\ UNCHANGED <<settings, state, defaultJobs, shared, now, saves, createCount, lastOp, upload, store, notes, rq, log, del, fn>>

GetResultFail ==
  \E t \in Slots :
    /\ tasks[t].pc = "getResult"
    /\ Advance(t, Failed(CurJob(t)), Sched, Ledger, saves)
    /\ UNCHANGED <<settings, now, createCount, lastOp, upload, store, notes, rq, del, fn>>

\* createNote succeeds; syncJob calls markSynced, which either returns at
\* once (already synced) or pushes the record and awaits the save.
CreateNoteOk ==
  \E t \in Slots, path \in Paths :
    /\ tasks[t].pc = "createNote"
    /\ createCount' = [createCount EXCEPT ![CurJob(t)] = Min(@ + 1, 2)]
    /\ IF markSyncedPersists(Ledger, CurJob(t))
       THEN /\ tasks' = [tasks EXCEPT ![t] = [@ EXCEPT !.pc = "saveData", !.path = path]]
            /\ SetLedger(markSynced(Ledger, CurJob(t), path, now))
            /\ UNCHANGED <<poller, timers, lastDelay, saves, log>>
       ELSE Advance(t, Ok(CurJob(t)), Sched, markSynced(Ledger, CurJob(t), path, now), saves)
    /\ UNCHANGED <<settings, now, lastOp, upload, store, notes, rq, del, fn>>

\* createNote returns { success: false } or throws.
CreateNoteFail ==
  \E t \in Slots :
    /\ tasks[t].pc = "createNote"
    /\ Advance(t, Failed(CurJob(t)), Sched, Ledger, saves)
    /\ UNCHANGED <<settings, now, createCount, lastOp, upload, store, notes, rq, del, fn>>

\* The save awaited by markSynced resolves: saveSettings restarts or stops
\* the poller, then markSynced and syncJob return.
SaveDataOk ==
  \E t \in Slots :
    /\ tasks[t].pc = "saveData"
    /\ Advance(t, Ok(CurJob(t)), afterSaveData(Sched, settings), Ledger, saves)
    /\ UNCHANGED <<settings, now, createCount, lastOp, upload, store, notes, rq, del, fn>>

\* The save awaited by markSynced rejects: syncJob's catch reports the job failed.
SaveDataFail ==
  \E t \in Slots :
    /\ tasks[t].pc = "saveData"
    /\ Advance(t, Failed(CurJob(t)), Sched, Ledger, saves)
    /\ UNCHANGED <<settings, now, createCount, lastOp, upload, store, notes, rq, del, fn>>

\* A save nobody awaits (prune, removeSynced, the settings tab) resolves.
DetachedSaveOk ==
  /\ saves > 0
  /\ saves' = saves - 1
  /\ SetSched(afterSaveData(Sched, settings))
  /\ UNCHANGED <<settings, tasks, state, defaultJobs, shared, now, createCount, lastOp, upload, store, notes, rq, log, del, fn>>

DetachedSaveFail ==
  /\ saves > 0
  /\ saves' = saves - 1
  /\ UNCHANGED <<poller, timers, lastDelay, settings, tasks, state, defaultJobs, shared, now, createCount, lastOp, upload, store, notes, rq, log, del, fn>>

\* The settings tab changes a setting and calls saveSettings().
SaveSettings ==
  \E a \in BOOLEAN, iv \in Intervals :
    /\ saves < MaxSaves
    /\ settings' = [autoSync |-> a, pollInterval |-> iv]
    /\ settings' # settings
    /\ saves' = saves + 1
    /\ UNCHANGED <<poller, timers, lastDelay, tasks, state, defaultJobs, shared, now, createCount, lastOp, upload, store, notes, rq, log, del, fn>>

Start ==
  /\ SetSched(start(Sched, settings))
  /\ UNCHANGED <<settings, tasks, state, defaultJobs, shared, now, saves, createCount, lastOp, upload, store, notes, rq, log, del, fn>>

Stop ==
  /\ SetSched(stop(Sched))
  /\ UNCHANGED <<settings, tasks, state, defaultJobs, shared, now, saves, createCount, lastOp, upload, store, notes, rq, log, del, fn>>

Pause ==
  /\ poller' = [poller EXCEPT !.isPaused = TRUE]
  /\ UNCHANGED <<timers, lastDelay, settings, tasks, state, defaultJobs, shared, now, saves, createCount, lastOp, upload, store, notes, rq, log, del, fn>>

Resume ==
  /\ poller' = [poller EXCEPT !.isPaused = FALSE]
  /\ UNCHANGED <<timers, lastDelay, settings, tasks, state, defaultJobs, shared, now, saves, createCount, lastOp, upload, store, notes, rq, log, del, fn>>

Restart ==
  /\ SetSched(restart(Sched, settings))
  /\ UNCHANGED <<settings, tasks, state, defaultJobs, shared, now, saves, createCount, lastOp, upload, store, notes, rq, log, del, fn>>

ResumeAfterError ==
  /\ SetSched(resumeAfterError(Sched, settings))
  /\ UNCHANGED <<settings, tasks, state, defaultJobs, shared, now, saves, createCount, lastOp, upload, store, notes, rq, log, del, fn>>

\* The queue's delete action: removeSynced(jobId), whose save nobody in the
\* poller awaits.
RemoveSynced ==
  \E j \in JobIds :
    /\ saves < MaxSaves
    /\ SetLedger(removeSynced(Ledger, j))
    /\ saves' = saves + 1
    /\ UNCHANGED <<poller, timers, lastDelay, settings, tasks, now, createCount, lastOp, upload, store, notes, rq, log, del, fn>>

Tick ==
  /\ now < MaxTicks * ClockStep
  /\ now' = now + ClockStep
  /\ UNCHANGED <<poller, timers, lastDelay, settings, tasks, state, defaultJobs, shared, saves, createCount, lastOp, upload, store, notes, rq, log, del, fn>>

\* ---------------------------------------------------------- specification
NoOp == [op |-> "none", jobId |-> 0, path |-> "", days |-> 0, present |-> FALSE,
         persisted |-> FALSE, ret |-> 0]

\* uploadImages has not been called. The fields after `failed` are history:
\* the requests made, the response returned, and what really happened to
\* each file (lost: step 1 or 2 failed; sent: the bytes were transferred).
NoUpload == [pc |-> "idle", files |-> <<>>, k |-> 0, uploadedMetadata |-> <<>>,
             failed |-> <<>>, urlRequests |-> <<>>, finalizeCalls |-> <<>>,
             finalizeFailed |-> FALSE, jobIds |-> <<>>, reported |-> <<>>,
             lost |-> {}, sent |-> {}]

\* The data file holds what loadSettings read; no saveData call is in flight.
\* `result` is how the latest ledger method to return ended.
InitStore == [disk |-> [syncedJobs |-> <<>>, lastSyncTime |-> NoTime], writes |-> <<>>,
              result |-> "none"]

\* A path of the folder is named by its suffix: BasePath is `Title.md`, and
\* n > 0 is `${pathWithoutExt} n.md`.
BasePath == 0
Thrown == -1

NoNotes == [pre |-> {}, vault |-> {}, pc |-> "idle", newPath |-> BasePath, counter |-> 0,
            created |-> <<>>, calls |-> 0, failures |-> 0, last |-> "none"]

\* The delete action of the queue: the job and note path it captured, the note
\* files of the vault, the jobs the queue shows and the jobs the backend holds.
NoDel == [pc |-> "idle", job |-> 0, notePath |-> "", noteDeleted |-> FALSE,
          vault |-> {"a.md", "b.md"}, jobs |-> {1, 2}, remote |-> {1, 2}, last |-> "none"]

NoLog == [on |-> FALSE, flip |-> FALSE, error |-> "none", listed |-> <<>>, jobs |-> <<>>,
          result |-> [syncedCount |-> 0, failedCount |-> 0, results |-> <<>>]]

NoBody == [shape |-> "none", code |-> "none"]

NoRq == [op |-> "none", transport |-> TRUE, status |-> 0, body |-> NoBody,
         outcome |-> "none", kind |-> "none", message |-> "none"]

InitPoller == [intervalId |-> Null, isPolling |-> FALSE, isPaused |-> FALSE,
               isStopped |-> FALSE, consecutiveErrors |-> 0]

Init ==
  /\ poller = InitPoller
  /\ timers = {}
  /\ lastDelay = 0
  /\ settings \in [autoSync : BOOLEAN, pollInterval : Intervals]
  /\ tasks = [t \in Slots |-> IdleTask]
  /\ state = [syncedJobs |-> <<>>, lastSyncTime |-> NoTime]
  /\ defaultJobs = <<>>
  /\ shared \in BOOLEAN
  /\ now = 0
  /\ saves = 0
  /\ createCount = [j \in JobIds |-> 0]
  /\ lastOp = NoOp
  /\ upload = NoUpload
  /\ store = InitStore
  /\ notes = NoNotes
  /\ rq = NoRq
  /\ log = NoLog
  /\ del = NoDel
  /\ fn = [title |-> <<>>, jobId |-> <<>>, filename |-> <<>>]

\* -------------------------------------------- direct calls of the ledger
\* The SyncStateManager driven method by method, as its callers and tests
\* drive it; every method runs to its `await this.persist()` in one step.
PruneDays == {15, 30}

LedgerPaths == {"a.md", "b.md"}

MarkLists ==
  {<<>>} \cup {<<[jobId |-> a, notePath |-> q]>> : a \in JobIds, q \in LedgerPaths}
         \cup {<<[jobId |-> a, notePath |-> q], [jobId |-> b, notePath |-> q]>> :
                 a \in JobIds, b \in JobIds, q \in LedgerPaths}

LedgerFrame == UNCHANGED <<poller, timers, lastDelay, settings, tasks, now, saves, createCount, upload, store, notes, rq, log, del, fn>>

CallMarkSynced ==
  \E j \in JobIds, path \in LedgerPaths :
    /\ SetLedger(markSynced(Ledger, j, path, now))
    /\ lastOp' = [NoOp EXCEPT !.op = "markSynced", !.jobId = j, !.path = path,
                              !.present = isSynced(Ledger, j),
                              !.persisted = markSyncedPersists(Ledger, j)]
    /\ LedgerFrame

CallMarkMultipleSynced ==
  \E jobs \in MarkLists :
    /\ SetLedger(markMultipleSynced(Ledger, jobs, now))
    /\ lastOp' = [NoOp EXCEPT !.op = "markMultipleSynced", !.persisted = TRUE]
    /\ LedgerFrame

CallRemoveSynced ==
  \E j \in JobIds :
    /\ SetLedger(removeSynced(Ledger, j))
    /\ lastOp' = [NoOp EXCEPT !.op = "removeSynced", !.jobId = j,
                              !.present = isSynced(Ledger, j),
                              !.persisted = removeSyncedPersists(Ledger, j)]
    /\ LedgerFrame

CallPrune ==
  \E d \in PruneDays :
    /\ SetLedger(prune(Ledger, d, now))
    /\ lastOp' = [NoOp EXCEPT !.op = "prune", !.days = d,
                              !.persisted = prunePersists(Ledger, d, now),
                              !.ret = prunedCount(Ledger, d, now)]
    /\ LedgerFrame

CallClear ==
  /\ SetLedger(clear(Ledger))
  /\ lastOp' = [NoOp EXCEPT !.op = "clear", !.persisted = TRUE]
  /\ LedgerFrame

\* ------------------------------------------------- the delay, count by count
\* scheduleNextPoll driven directly over the slider's intervals and a growing
\* consecutive-error count.
SliderIntervals == {MIN_POLL_INTERVAL + 5000 * k : k \in 0..58}

InitBackoff ==
  /\ poller = InitPoller
  /\ timers = {}
  /\ lastDelay = 0
  /\ settings \in [autoSync : {TRUE}, pollInterval : SliderIntervals]
  /\ tasks = [t \in Slots |-> IdleTask]
  /\ state = [syncedJobs |-> <<>>, lastSyncTime |-> NoTime]
  /\ defaultJobs = <<>>
  /\ shared = TRUE
  /\ now = 0
  /\ saves = 0
  /\ createCount = [j \in JobIds |-> 0]
  /\ lastOp = NoOp
  /\ upload = NoUpload
  /\ store = InitStore
  /\ notes = NoNotes
  /\ rq = NoRq
  /\ log = NoLog
  /\ del = NoDel
  /\ fn = [title |-> <<>>, jobId |-> <<>>, filename |-> <<>>]

BackoffFrame == UNCHANGED <<settings, tasks, state, defaultJobs, shared, now, saves, createCount, lastOp, upload, store, notes, rq, log, del, fn>>

\* The first delay: no error yet.
ArmFirst ==
  /\ timers = {}
  /\ lastDelay = 0
  /\ SetSched(scheduleNextPoll(Sched, settings))
  /\ BackoffFrame

\* The timer fires, the count grows by one and the next delay is computed.
ArmAfterError ==
  /\ timers # {}
  /\ poller.consecutiveErrors < MaxN
  /\ SetSched(scheduleNextPoll([Sched EXCEPT !.ts = {}, !.p.consecutiveErrors = @ + 1], settings))
  /\ BackoffFrame

\* ------------------------------------------------- SyncClient.uploadImages
\* One call of uploadImages at a time, as the upload dialog makes them. A
\* file is its name and its size; the names of a batch are distinct.
FileSizes == {1024, MAX_FILE_SIZE + 1}

FileLists ==
  UNION {[1..n -> FileSizes] : n \in 0..MaxFiles}

FileOf(sizes, k) == [filename |-> k, size |-> sizes[k]]

RECURSIVE Filenames(_)
\* uploadedMetadata.map((m) => m.filename)
Filenames(ms) ==
  IF ms = <<>> THEN <<>> ELSE <<Head(ms).filename>> \o Filenames(Tail(ms))

\* Step 1 for file k: getSignedUrl(file.name, file.type) is called.
requestUrl(u, k) ==
  [u EXCEPT !.k = k, !.pc = "signedUrl", !.urlRequests = Append(@, u.files[k])]

\* Variant: the loop's exit without the early return.
loopDoneAlwaysFinalizes(u) ==
  [u EXCEPT !.pc = "finalize", !.finalizeCalls = Append(@, Filenames(u.uploadedMetadata))]

\* After the loop: the early return, or step 3 with the uploaded metadata.
loopDone(u) ==
  IF Len(u.uploadedMetadata) = 0
  THEN [u EXCEPT !.pc = "done", !.jobIds = <<>>, !.reported = u.failed]
  ELSE [u EXCEPT !.pc = "finalize", !.finalizeCalls = Append(@, Filenames(u.uploadedMetadata))]

nextFile(u) == IF u.k < Len(u.files) THEN requestUrl(u, u.k + 1) ELSE loopDone(u)

\* uploadedMetadata.push({ path, filename, contentType, size })
pushUploaded(u) ==
  [u EXCEPT !.uploadedMetadata = Append(@, [filename |-> u.files[u.k].filename,
                                            size |-> u.files[u.k].size])]

\* Variant: the catch block of the loop without its push.
pushFailedDropped(u) == u

\* failed.push({ filename, reason }) in the catch block of the loop.
pushFailed(u) == [u EXCEPT !.failed = Append(@, u.files[u.k].filename)]

\* The response after finalizeUploads resolved.
finalizeSucceeded(u, ids) ==
  [u EXCEPT !.pc = "done", !.jobIds = ids, !.reported = u.failed]

\* Variant: a failed finalize that reports only the files failed in the loop.
finalizeFailedLoopOnly(u) ==
  [u EXCEPT !.pc = "done", !.jobIds = <<>>, !.reported = u.failed, !.finalizeFailed = TRUE]

\* The response after finalizeUploads rejected.
finalizeFailed(u) ==
  [u EXCEPT !.pc = "done", !.jobIds = <<>>,
            !.reported = u.failed \o Filenames(u.uploadedMetadata),
            !.finalizeFailed = TRUE]

UploadFrame ==
  UNCHANGED <<poller, timers, lastDelay, settings, tasks, state, defaultJobs, shared, now,
              saves, createCount, lastOp, store, notes, rq, log, del, fn>>

UploadImages ==
  \E sizes \in FileLists :
    LET files == [k \in 1..Len(sizes) |-> FileOf(sizes, k)]
        u == [NoUpload EXCEPT !.files = files]
    IN /\ upload.pc \in {"idle", "done"}
       /\ upload' = IF files = <<>> THEN loopDone(u) ELSE requestUrl(u, 1)
       /\ UploadFrame

SignedUrlOk ==
  /\ upload.pc = "signedUrl"
  /\ upload' = [upload EXCEPT !.pc = "put"]
  /\ UploadFrame

SignedUrlFail ==
  /\ upload.pc = "signedUrl"
  /\ upload' = nextFile([pushFailed(upload) EXCEPT !.lost = @ \cup {upload.k}])
  /\ UploadFrame

\* uploadToSignedUrl resolves: the PUT answered with an ok status.
PutOk ==
  /\ upload.pc = "put"
  /\ upload' = nextFile([pushUploaded(upload) EXCEPT !.sent = @ \cup {upload.k}])
  /\ UploadFrame

\* uploadToSignedUrl rejects: arrayBuffer or fetch failed, or the status was not ok.
PutFail ==
  /\ upload.pc = "put"
  /\ upload' = nextFile([pushFailed(upload) EXCEPT !.lost = @ \cup {upload.k}])
  /\ UploadFrame

\* The finalize endpoint answers with the ids of the jobs it created.
FinalizeOk ==
  \E n \in 0..Len(upload.uploadedMetadata) :
    /\ upload.pc = "finalize"
    /\ upload' = finalizeSucceeded(upload, [i \in 1..n |-> i])
    /\ UploadFrame

FinalizeFail ==
  /\ upload.pc = "finalize"
  /\ upload' = finalizeFailed(upload)
  /\ UploadFrame

\* ------------------------------------------- the ledger and its data file
\* The SyncStateManager's methods with their persist calls in flight: a
\* method mutates the state and calls the persister, which hands the state
\* to saveData at once (main.ts saveSettings has no await before it); the
\* method returns when that saveData call settles. saveData calls settle in
\* the order they were made.
InMemory == [syncedJobs |-> state.syncedJobs, lastSyncTime |-> state.lastSyncTime]

\* persist(): this.persister(this.state) reaches saveData with the state as it is now.
persist(st, op, changed, L) ==
  [st EXCEPT !.writes = Append(@, [op |-> op, changed |-> changed,
                                   snap |-> [syncedJobs |-> L.syncedJobs,
                                             lastSyncTime |-> L.lastSyncTime]])]

PersistFrame ==
  UNCHANGED <<poller, timers, lastDelay, settings, tasks, now, saves, createCount, lastOp, upload, notes, rq, log, del, fn>>

BeginMarkSynced ==
  \E j \in JobIds, path \in Paths :
    LET L == markSynced(Ledger, j, path, now) IN
    /\ Len(store.writes) < MaxWrites
    /\ markSyncedPersists(Ledger, j)
    /\ SetLedger(L)
    /\ store' = persist(store, "markSynced", TRUE, L)
    /\ PersistFrame

BeginRemoveSynced ==
  \E j \in JobIds :
    LET L == removeSynced(Ledger, j) IN
    /\ Len(store.writes) < MaxWrites
    /\ SetLedger(L)
    /\ store' = persist(store, "removeSynced", isSynced(Ledger, j), L)
    /\ PersistFrame

BeginPrune ==
  \E d \in PruneDays :
    LET L == prune(Ledger, d, now) IN
    /\ Len(store.writes) < MaxWrites
    /\ SetLedger(L)
    /\ store' = IF prunePersists(Ledger, d, now) THEN persist(store, "prune", TRUE, L)
                ELSE [store EXCEPT !.result = "ok"]
    /\ PersistFrame

BeginClear ==
  LET L == clear(Ledger) IN
  /\ Len(store.writes) < MaxWrites
  /\ SetLedger(L)
  /\ store' = persist(store, "clear", TRUE, L)
  /\ PersistFrame

\* The oldest saveData call resolves: the file holds what it was given, and
\* the method that awaited it returns.
WriteOk ==
  /\ store.writes # <<>>
  /\ store' = [disk |-> Head(store.writes).snap, writes |-> Tail(store.writes),
               result |-> "ok"]
  /\ UNCHANGED <<state, defaultJobs, shared>>
  /\ PersistFrame

\* The oldest saveData call rejects: the method that awaited it throws.
WriteFail ==
  /\ store.writes # <<>>
  /\ store' = [store EXCEPT !.writes = Tail(@), !.result = "failed"]
  /\ UNCHANGED <<state, defaultJobs, shared>>
  /\ PersistFrame

\* ------------------------------------------------- NoteCreator.createNote
\* Files the folder may hold before the first note is created.
PreExisting == {{}, {BasePath}, {1}, {BasePath, 2}}

\* Variant: the loop gives up one suffix earlier.
searchFromStrict(V, counter) ==
  LET free == {n \in counter..(COUNTER_LIMIT - 1) : n \notin V} IN
  IF free = {} THEN [path |-> Thrown, counter |-> COUNTER_LIMIT]
  ELSE [path |-> CHOOSE n \in free : \A m \in free : n <= m,
        counter |-> CHOOSE n \in free : \A m \in free : n <= m]

RECURSIVE searchFrom(_, _)
\* getUniquePath: the while loop, entered with newPath the path of `counter`.
\* The body increments the counter and throws once it is over the limit.
searchFrom(V, counter) ==
  IF counter \notin V THEN [path |-> counter, counter |-> counter]
  ELSE IF counter + 1 > COUNTER_LIMIT THEN [path |-> Thrown, counter |-> counter + 1]
  ELSE searchFrom(V, counter + 1)

\* Variant: getUniquePath whose search gives up one suffix earlier.
getUniquePathStrict(V) ==
  IF BasePath \notin V THEN [path |-> BasePath, counter |-> 0]
  ELSE searchFromStrict(V, 1)

\* Variant: getUniquePath that returns the base path whatever exists.
getUniquePathNoSearch(V) == [path |-> BasePath, counter |-> 0]

getUniquePath(V) ==
  IF BasePath \notin V THEN [path |-> BasePath, counter |-> 0]
  ELSE searchFrom(V, 1)

NotesFrame ==
  UNCHANGED <<poller, timers, lastDelay, settings, tasks, state, defaultJobs, shared, now,
              saves, createCount, lastOp, upload, store, rq, log, del, fn>>

\* createNote up to `await this.app.vault.create(uniquePath, content)`; when
\* getUniquePath throws, the catch returns { success: false, error }.
GetUniquePath ==
  /\ notes.pc = "idle"
  /\ notes.calls < MaxNotes
  /\ LET r == getUniquePath(notes.vault) IN
     notes' = IF r.path = Thrown
              THEN [notes EXCEPT !.calls = @ + 1, !.counter = r.counter, !.last = "thrown"]
              ELSE [notes EXCEPT !.calls = @ + 1, !.counter = r.counter, !.last = "none",
                                 !.newPath = r.path, !.pc = "create"]
  /\ NotesFrame

\* vault.create resolves: createNote returns { success: true, filePath }.
VaultCreateOk ==
  /\ notes.pc = "create"
  /\ notes' = [notes EXCEPT !.vault = @ \cup {notes.newPath},
                            !.created = Append(@, notes.newPath),
                            !.pc = "idle", !.last = "ok"]
  /\ NotesFrame

\* vault.create rejects: the catch returns { success: false, error }.
VaultCreateFail ==
  /\ notes.pc = "create"
  /\ notes.failures < MaxCreateFailures
  /\ notes' = [notes EXCEPT !.failures = @ + 1, !.pc = "idle", !.last = "failed"]
  /\ NotesFrame

InitNotes ==
  /\ poller = InitPoller
  /\ timers = {}
  /\ lastDelay = 0
  /\ settings \in [autoSync : {TRUE}, pollInterval : Intervals]
  /\ tasks = [t \in Slots |-> IdleTask]
  /\ state = [syncedJobs |-> <<>>, lastSyncTime |-> NoTime]
  /\ defaultJobs = <<>>
  /\ shared = TRUE
  /\ now = 0
  /\ saves = 0
  /\ createCount = [j \in JobIds |-> 0]
  /\ lastOp = NoOp
  /\ upload = NoUpload
  /\ store = InitStore
  /\ \E pre \in PreExisting : notes = [NoNotes EXCEPT !.pre = pre, !.vault = pre]
  /\ rq = NoRq
  /\ log = NoLog
  /\ del = NoDel
  /\ fn = [title |-> <<>>, jobId |-> <<>>, filename |-> <<>>]

\* ------------------------------------- SyncClient.request and parseApiError
\* type ErrorCode
ErrorCodes == {"INVALID_API_KEY", "NOT_FOUND", "VALIDATION_ERROR", "RATE_LIMIT_EXCEEDED",
               "FILE_TOO_LARGE", "UNSUPPORTED_FORMAT", "JOB_NOT_FAILED", "IMAGE_EXPIRED",
               "NETWORK_ERROR", "INTERNAL_ERROR"}

\* HTTP statuses a response may carry.
Statuses == {200, 204, 302, 400, 401, 404, 409, 410, 413, 429, 500}

\* A response body: absent, { error: { code, message } } ("nested"), or
\* { code, message } ("flat").
Bodies == {NoBody} \cup [shape : {"nested", "flat"}, code : ErrorCodes]

\* parseApiError: the code of the PluginError it returns.
parseApiError(statusCode, body) ==
  IF body.shape = "nested"
  THEN IF body.code \in {"INVALID_API_KEY", "NOT_FOUND", "VALIDATION_ERROR",
                         "RATE_LIMIT_EXCEEDED", "FILE_TOO_LARGE", "UNSUPPORTED_FORMAT",
                         "JOB_NOT_FAILED", "IMAGE_EXPIRED"}
       THEN body.code
       ELSE "INTERNAL_ERROR"
  ELSE CASE statusCode = 401 -> "INVALID_API_KEY"
         [] statusCode = 404 -> "NOT_FOUND"
         [] statusCode = 413 -> "FILE_TOO_LARGE"
         [] statusCode = 429 -> "RATE_LIMIT_EXCEEDED"
         [] OTHER -> "INTERNAL_ERROR"

\* request: requestUrl rejected. The catch throws a built-in Error (kind
\* "Error": no PluginError, no code) whose message starts "Network error: ".
requestCatch ==
  [outcome |-> "threw", kind |-> "Error", message |-> "Network error: cause"]

\* request: requestUrl resolved with a response (throw: false).
requestResponse(status, body) ==
  IF status >= 400
  THEN [outcome |-> "threw", kind |-> "Error",
        message |-> IF body.shape = "flat" THEN "body.message"
                    ELSE "Request failed with status"]
  ELSE [outcome |-> "returned", kind |-> "none", message |-> "none"]

RequestFrame ==
  UNCHANGED <<poller, timers, lastDelay, settings, tasks, state, defaultJobs, shared, now,
              saves, createCount, lastOp, upload, store, notes, log, del, fn>>

\* A request whose transport failed: DNS, TLS, timeout.
RequestTransportFails ==
  /\ rq' = [NoRq EXCEPT !.op = "request", !.transport = FALSE,
                        !.outcome = requestCatch.outcome, !.kind = requestCatch.kind,
                        !.message = requestCatch.message]
  /\ RequestFrame

\* A request the server answered.
RequestResponds ==
  \E status \in Statuses, body \in Bodies :
    /\ LET r == requestResponse(status, body) IN
       rq' = [NoRq EXCEPT !.op = "request", !.status = status, !.body = body,
                         !.outcome = r.outcome, !.kind = r.kind, !.message = r.message]
    /\ RequestFrame

\* A direct call of parseApiError(statusCode, body).
CallParseApiError ==
  \E status \in Statuses, body \in Bodies :
    /\ rq' = [NoRq EXCEPT !.op = "parseApiError", !.status = status, !.body = body,
                         !.outcome = "returned", !.kind = parseApiError(status, body)]
    /\ RequestFrame

\* ------------------------------------------------ QueueModal.handleDeleteJob
\* The confirming tap on a job's delete button: the handler reads the note
\* path of the job from the ledger and runs up to `await deleteJob(job.id)`.
DeleteTap ==
  \E j \in del.jobs :
    /\ del.pc = "idle"
    /\ del' = [del EXCEPT !.pc = "deleteJob", !.job = j, !.noteDeleted = FALSE, !.last = "none",
                          !.notePath = IF isSynced(Ledger, j)
                                       THEN state.syncedJobs[
                                              CHOOSE k \in 1..Len(state.syncedJobs) :
                                                /\ state.syncedJobs[k].jobId = j
                                                /\ \A m \in 1..(k - 1) :
                                                     state.syncedJobs[m].jobId # j].notePath
                                       ELSE ""]
    /\ UNCHANGED <<poller, timers, lastDelay, settings, tasks, state, defaultJobs, shared, now,
                   saves, createCount, lastOp, upload, store, notes, rq, log, fn>>

\* Variant: the handler goes on after a failed deleteJob.
DeleteJobDoneAnyway ==
  \E ok \in BOOLEAN :
    /\ del.pc = "deleteJob"
    /\ IF del.notePath # ""
       THEN /\ del' = [del EXCEPT !.pc = "deleteNote",
                                  !.remote = IF ok THEN @ \ {del.job} ELSE @]
            /\ UNCHANGED <<state, defaultJobs, shared>>
       ELSE /\ del' = [del EXCEPT !.pc = "persist",
                                  !.remote = IF ok THEN @ \ {del.job} ELSE @]
            /\ SetLedger(removeSynced(Ledger, del.job))
    /\ UNCHANGED <<poller, timers, lastDelay, settings, tasks, now,
                   saves, createCount, lastOp, upload, store, notes, rq, log, fn>>

\* deleteJob settles. Rejected: the catch shows the notice and resets the
\* button. Resolved: the handler goes on to onDeleteNote when the job had a
\* note path, and otherwise to removeSynced, which filters at once and then
\* awaits the save.
DeleteJobDone ==
  \E ok \in BOOLEAN :
    /\ del.pc = "deleteJob"
    /\ IF ~ok
       THEN /\ del' = [del EXCEPT !.pc = "idle", !.last = "deleteFailed"]
            /\ UNCHANGED <<state, defaultJobs, shared>>
       ELSE IF del.notePath # ""
       THEN /\ del' = [del EXCEPT !.pc = "deleteNote", !.remote = @ \ {del.job}]
            /\ UNCHANGED <<state, defaultJobs, shared>>
       ELSE /\ del' = [del EXCEPT !.pc = "persist", !.remote = @ \ {del.job}]
            /\ SetLedger(removeSynced(Ledger, del.job))
    /\ UNCHANGED <<poller, timers, lastDelay, settings, tasks, now,
                   saves, createCount, lastOp, upload, store, notes, rq, log, fn>>

\* deleteNoteFile returns: true after vault.delete of an existing file, false
\* when the file is not there or vault.delete threw. Then removeSynced
\* filters the ledger and awaits the save.
DeleteNoteDone ==
  \E deleted \in BOOLEAN :
    /\ del.pc = "deleteNote"
    /\ deleted => del.notePath \in del.vault
    /\ del' = [del EXCEPT !.pc = "persist", !.noteDeleted = deleted,
                          !.vault = IF deleted THEN @ \ {del.notePath} ELSE @]
    /\ SetLedger(removeSynced(Ledger, del.job))
    /\ UNCHANGED <<poller, timers, lastDelay, settings, tasks, now,
                   saves, createCount, lastOp, upload, store, notes, rq, log, fn>>

\* The save awaited by removeSynced settles. Resolved: the job leaves the
\* shown list. Rejected: the catch leaves the list as it is.
RemovePersistDone ==
  \E ok \in BOOLEAN :
    /\ del.pc = "persist"
    /\ del' = [del EXCEPT !.pc = "idle",
                          !.jobs = IF ok THEN @ \ {del.job} ELSE @,
                          !.last = IF ok THEN "deleted" ELSE "persistFailed"]
    /\ UNCHANGED <<poller, timers, lastDelay, settings, tasks, state, defaultJobs, shared, now,
                   saves, createCount, lastOp, upload, store, notes, rq, log, fn>>

\* ------------------------------------------- NoteCreator.generateFilename
\* Strings are sequences of characters. Titles: every string of up to
\* MaxTitleLen characters over a letter, the dot, the space, the tab and the
\* slash, and strings one character over the length limit.
Titles ==
  LET Alphabet == {"a", ".", " ", "\t", "/"}
      Short == UNION {[1..n -> Alphabet] : n \in 0..MaxTitleLen}
      As == [i \in 1..(MAX_FILENAME_LENGTH - 1) |-> "a"]
  IN Short \cup {As \o t : t \in [1..2 -> Alphabet]}

sanitizeForPath(str) ==
  LET Illegal == {"\\", "/", ":", "*", "?", "\"", "<", ">", "|"}
      Space == {" ", "\t", "\n"}
      \* s from its first character outside cs on, and up to its last one
      DropLeading(s, cs) ==
        LET keep == {i \in 1..Len(s) : s[i] \notin cs}
        IN IF keep = {} THEN <<>>
           ELSE SubSeq(s, CHOOSE i \in keep : \A m \in keep : i <= m, Len(s))
      DropTrailing(s, cs) ==
        LET keep == {i \in 1..Len(s) : s[i] \notin cs}
        IN IF keep = {} THEN <<>>
           ELSE SubSeq(s, 1, CHOOSE i \in keep : \A m \in keep : i >= m)
      \* .replace(/[\\/:*?"<>|]/g, '-')
      s1 == [i \in 1..Len(str) |-> IF str[i] \in Illegal THEN "-" ELSE str[i]]
      \* .replace(/\s+/g, ' ')
      \* s1[lo..hi] with every run of white space replaced by one space
      RECURSIVE collapsed(_, _)
      collapsed(lo, hi) ==
        IF lo > hi THEN <<>>
        ELSE IF lo < hi
          THEN collapsed(lo, (lo + hi) \div 2) \o collapsed((lo + hi) \div 2 + 1, hi)
        ELSE IF s1[lo] \notin Space THEN <<s1[lo]>>
        ELSE IF lo > 1 /\ s1[lo - 1] \in Space THEN <<>>
        ELSE <<" ">>
      s2 == collapsed(1, Len(s1))
      \* .replace(/^\.+/, '')
      s3 == DropLeading(s2, {"."})
      \* .replace(/\.+$/, '')
      s4 == DropTrailing(s3, {"."})
  IN \* .trim()
     DropTrailing(DropLeading(s4, Space), Space)

generateFilename(title, jobId) ==
  LET sanitized == sanitizeForPath(title)
      truncated == IF Len(sanitized) > MAX_FILENAME_LENGTH
                   THEN SubSeq(sanitized, 1, MAX_FILENAME_LENGTH)
                   ELSE sanitized
      filename == IF truncated = <<>>
                  THEN <<"n", "o", "t", "e", "-">> \o SubSeq(jobId, 1, Min(8, Len(jobId)))
                  ELSE truncated
  IN filename \o <<".", "m", "d">>

\* The call of generateFilename for a result with some title.
GenerateFilename ==
  /\ fn.filename = <<>>
  /\ \E title \in Titles, jobId \in {<<"j", "1">>, <<"0", "1", "2", "3", "4", "5", "6", "7", "8", "9">>} :
       /\ fn' = [title |-> title, jobId |-> jobId, filename |-> generateFilename(title, jobId)]
       /\ UNCHANGED <<poller, timers, lastDelay, settings, tasks, state, defaultJobs, shared, now,
                      saves, createCount, lastOp, upload, store, notes, rq, log, del>>

\* ---------------------------------------------------------- specifications
\* The scheduler: timers, lifecycle calls, manual syncs, cycles, settings.
Next ==
  \/ TimerFires \/ SyncNow
  \/ GetJobsOk \/ GetJobsFail
  \/ GetResultOk \/ GetResultFail
  \/ CreateNoteOk \/ CreateNoteFail
  \/ SaveDataOk \/ SaveDataFail
  \/ DetachedSaveOk \/ DetachedSaveFail
  \/ SaveSettings
  \/ Start \/ Stop \/ Pause \/ Resume \/ Restart \/ ResumeAfterError

Spec == Init /\ [][Next]_vars

\* Scheduled polls, manual syncs and prune as time passes; no user delete.
NextAuto ==
  \/ TimerFires \/ SyncNow
  \/ GetJobsOk \/ GetJobsFail
  \/ GetResultOk \/ GetResultFail
  \/ CreateNoteOk \/ CreateNoteFail
  \/ SaveDataOk \/ SaveDataFail
  \/ DetachedSaveOk \/ DetachedSaveFail
  \/ Start
  \/ Tick

SpecAuto == Init /\ [][NextAuto]_vars

NextLedger ==
  \/ CallMarkSynced \/ CallMarkMultipleSynced \/ CallRemoveSynced
  \/ CallPrune \/ CallClear
  \/ Tick

SpecLedger == Init /\ [][NextLedger]_vars

NextBackoff == ArmFirst \/ ArmAfterError

SpecBackoff == InitBackoff /\ [][NextBackoff]_vars

NextUpload ==
  \/ UploadImages
  \/ SignedUrlOk \/ SignedUrlFail
  \/ PutOk \/ PutFail
  \/ FinalizeOk \/ FinalizeFail

SpecUpload == Init /\ [][NextUpload]_vars

NextPersist ==
  \/ BeginMarkSynced \/ BeginRemoveSynced \/ BeginPrune \/ BeginClear
  \/ WriteOk \/ WriteFail
  \/ Tick

SpecPersist == Init /\ [][NextPersist]_vars

\* Notes created one after another from results with one base name.
NextNotes == GetUniquePath \/ VaultCreateOk \/ VaultCreateFail

SpecNotes == InitNotes /\ [][NextNotes]_vars

\* Scheduled and manual cycles with the SyncResult of each one recorded.
InitCycle ==
  /\ poller = InitPoller
  /\ timers = {}
  /\ lastDelay = 0
  /\ settings \in [autoSync : {TRUE}, pollInterval : Intervals]
  /\ tasks = [t \in Slots |-> IdleTask]
  /\ state = [syncedJobs |-> <<>>, lastSyncTime |-> NoTime]
  /\ defaultJobs = <<>>
  /\ shared \in BOOLEAN
  /\ now = 0
  /\ saves = 0
  /\ createCount = [j \in JobIds |-> 0]
  /\ lastOp = NoOp
  /\ upload = NoUpload
  /\ store = InitStore
  /\ notes = NoNotes
  /\ rq = NoRq
  /\ log = [NoLog EXCEPT !.on = TRUE]
  /\ del = NoDel
  /\ fn = [title |-> <<>>, jobId |-> <<>>, filename |-> <<>>]

NextCycle ==
  \/ TimerFires \/ SyncNow
  \/ GetJobsOk \/ GetJobsFail
  \/ GetResultOk \/ GetResultFail
  \/ CreateNoteOk \/ CreateNoteFail
  \/ SaveDataOk \/ SaveDataFail
  \/ Start

SpecCycle == InitCycle /\ [][NextCycle]_vars

\* Jobs are marked synced and deleted from the queue.
NextDelete ==
  \/ CallMarkSynced
  \/ DeleteTap \/ DeleteJobDone \/ DeleteNoteDone \/ RemovePersistDone

SpecDelete == Init /\ [][NextDelete]_vars

\* The scheduler left to itself with auto-sync on: start() is called, armed
\* timers fire, every remote call, note creation and save completes, and for
\* each job the list call that returns it, its result fetch and its note
\* creation succeed again and again whenever they are attempted again and again.
Succeeds(step, j) ==
  \E t \in Slots :
    CASE step = "list"   -> /\ GetJobsOk
                            /\ tasks[t].pc = "getJobs"
                            /\ \E k \in 1..Len(tasks'[t].listed) : tasks'[t].listed[k] = j
      [] step = "fetch"  -> /\ GetResultOk
                            /\ tasks[t].pc = "getResult" /\ CurJob(t) = j
                            /\ tasks'[t].pc = "createNote"
      [] OTHER           -> /\ CreateNoteOk
                            /\ tasks[t].pc = "createNote" /\ CurJob(t) = j
                            /\ isSynced(Ledger', j)

NextLive ==
  \/ Start \/ TimerFires
  \/ GetJobsOk \/ GetJobsFail
  \/ GetResultOk \/ GetResultFail
  \/ CreateNoteOk \/ CreateNoteFail
  \/ SaveDataOk \/ SaveDataFail

\* The plugin loaded with auto-sync enabled.
InitLive == Init /\ settings.autoSync

SpecLive ==
  /\ InitLive
  /\ [][NextLive]_vars
  /\ WF_vars(Start)
  /\ WF_vars(TimerFires)
  /\ WF_vars(GetJobsOk \/ GetJobsFail)
  /\ WF_vars(GetResultOk \/ GetResultFail)
  /\ WF_vars(CreateNoteOk \/ CreateNoteFail)
  /\ WF_vars(SaveDataOk \/ SaveDataFail)
  /\ \A j \in JobIds :
       /\ SF_vars(Succeeds("list", j))
       /\ SF_vars(Succeeds("fetch", j))
       /\ SF_vars(Succeeds("create", j))

\* The filename generated for a title.
SpecFilename == Init /\ [][GenerateFilename]_vars

\* Requests of the remote client and calls of the error parser, one by one.
NextRequest == RequestTransportFails \/ RequestResponds \/ CallParseApiError

SpecRequest == Init /\ [][NextRequest]_vars

\* ================================================================= claims
ActiveSlots == {t \in Slots : Active(t)}

RecordsOf(j) == {k \in 1..Len(state.syncedJobs) : state.syncedJobs[k].jobId = j}

InLoop(tk) == tk.pc \in {"getResult", "createNote", "saveData"}

\* C1: with scheduled polls, manual syncs and prune only (no user delete),
\* createNote succeeds at most once for each remote job id.
C1_AtMostOnce == \A j \in JobIds : createCount[j] <= 1

C3_OneRecordPerId == \A j \in JobIds : Cardinality(RecordsOf(j)) <= 1

\* markSynced was just called for an id that was already in the ledger.
C3_Witness ==
  /\ lastOp.op = "markSynced"
  /\ lastOp.present
  /\ Cardinality(RecordsOf(lastOp.jobId)) = 1

\* C4: the step that puts the scheduler in stopped-on-error leaves no timer
\* armed, and while it stays stopped no scheduled poll cycle begins.
C4_StoppedNoTimer ==
  [][/\ (~poller.isStopped /\ poller'.isStopped) => timers' = {}
     /\ (poller.isStopped /\ poller'.isStopped) =>
          \A t \in Slots : tasks'[t].kind = "poll" => tasks[t].kind = "poll"]_vars

\* C5: at most one sync cycle is in flight, and the polling flag is set
\* while it is, so that syncNow then returns empty without a network call.
C5_Mutex ==
  /\ Cardinality(ActiveSlots) <= 1
  /\ ActiveSlots # {} => poller.isPolling

\* A manual cycle is in flight while an armed timer may fire into it.
C5_Witness ==
  /\ \E t \in Slots : Active(t) /\ tasks[t].kind = "syncNow"
  /\ timers # {}
  /\ ~poller.isPaused
  /\ settings.autoSync

\* C6: when a scheduled cycle completes after stop() (intervalId is null
\* and the completing step does not itself restart), no timer is armed.
C6_StopHolds ==
  [][\A t \in Slots :
       (/\ tasks[t].kind = "poll"
        /\ tasks[t].pc \in {"getJobs", "getResult", "createNote"}
        /\ tasks'[t].pc = "idle"
        /\ poller.intervalId = Null) => timers' = {}]_vars

\* C7: at most one poll timer is armed.
C7_OneTimer == Cardinality(timers) <= 1

\* C8: every step of the loop keeps the job list, leaves the results alone
\* or appends one entry for the current job and moves to the next job; the
\* cycle ends only from its last job, with one entry for each job before it.
C8_Isolation ==
  [][\A t \in Slots :
       LET a == tasks[t]
           b == tasks'[t]
       IN /\ (a.pc = "getJobs" /\ b.pc \notin {"idle", "getJobs"}) =>
               (b.i = 1 /\ b.results = <<>> /\ b.jobs # <<>>)
          /\ (InLoop(a) /\ b.pc # "idle") =>
               /\ b.jobs = a.jobs
               /\ \/ b.i = a.i /\ b.results = a.results
                  \/ /\ b.i = a.i + 1
                     /\ b.i <= Len(a.jobs)
                     /\ Len(b.results) = Len(a.results) + 1
                     /\ SubSeq(b.results, 1, Len(a.results)) = a.results
                     /\ b.results[Len(b.results)].jobId = a.jobs[a.i]
          /\ (InLoop(a) /\ b.pc = "idle") =>
               (a.i = Len(a.jobs) /\ Len(a.results) = a.i - 1)]_vars

\* The first job of a cycle failed and the second one is being processed.
C8_Witness ==
  \E t \in Slots :
    /\ tasks[t].pc = "createNote"
    /\ tasks[t].i = 2
    /\ Len(tasks[t].results) = 1
    /\ ~tasks[t].results[1].success

\* C9: the consecutive-error counter grows only in a step in which the list
\* call of a scheduled cycle fails; no step of the per-job loop grows it.
C9_OnlyListFailureCounts ==
  [][poller'.consecutiveErrors > poller.consecutiveErrors =>
       \E t \in Slots : /\ tasks[t].kind = "poll"
                        /\ tasks[t].pc = "getJobs"
                        /\ tasks'[t].pc = "idle"]_vars

\* A scheduled cycle whose list call succeeded has a failed job while the
\* counter is positive.
C9_Witness ==
  /\ poller.consecutiveErrors >= 1
  /\ \E t \in Slots :
       /\ tasks[t].kind = "poll"
       /\ InLoop(tasks[t])
       /\ \E k \in 1..Len(tasks[t].results) : ~tasks[t].results[k].success

\* C10: for an interval in [10000, 300000] the delay for count n + 1 is at
\* least the delay for count n, and every delay is at most 300000 ms.
C10_MonotoneCapped ==
  /\ lastDelay <= 300000
  /\ timers # {} =>
       scheduleNextPoll([Sched EXCEPT !.p.consecutiveErrors = @ + 1], settings).d >= lastDelay

\* The cap is reached from an interval below it.
C10_Witness ==
  /\ poller.consecutiveErrors >= 7
  /\ settings.pollInterval < 300000
  /\ lastDelay = 300000

\* C11: a failed list call of a scheduled cycle that leaves the counter at n,
\* 1 <= n <= 4, arms the next timer with delay max(interval, 5000 * 2^(n-1));
\* with interval 30000 that is 30000 for n = 2 and 40000 for n = 4.
C11_BackoffDelay ==
  [][\A t \in Slots :
       LET n == poller'.consecutiveErrors IN
       (/\ tasks[t].kind = "poll"
        /\ tasks[t].pc = "getJobs"
        /\ tasks'[t].pc = "idle"
        /\ n > poller.consecutiveErrors
        /\ n \in 1..4) =>
          /\ timers' # {}
          /\ lastDelay' = Max(settings.pollInterval, 5000 * 2^(n - 1))
          /\ (settings.pollInterval = 30000 /\ n = 2) => lastDelay' = 30000
          /\ (settings.pollInterval = 30000 /\ n = 4) => lastDelay' = 40000]_vars

\* Four failures in a row: the backoff has overtaken the interval.
C11_Witness ==
  /\ poller.consecutiveErrors = 4
  /\ ~poller.isPolling
  /\ timers # {}
  /\ settings.pollInterval = 30000
  /\ lastDelay = 40000

\* C12: the step in which a scheduled cycle ends after its list call
\* succeeded leaves the counter at 0 and arms a timer whose delay is the
\* configured poll interval.
C12_SuccessResets ==
  [][\A t \in Slots :
       (/\ tasks[t].kind = "poll"
        /\ Active(t)
        /\ tasks'[t].pc = "idle"
        /\ ~GetJobsFail) =>
          /\ poller'.consecutiveErrors = 0
          /\ timers' # {}
          /\ lastDelay' = settings'.pollInterval]_vars

\* A scheduled cycle succeeded after five failures in a row: the stopped
\* flag of the fifth failure is still set and the counter is back at 0.
C12_Witness ==
  /\ poller.isStopped
  /\ poller.consecutiveErrors = 0
  /\ ~poller.isPolling
  /\ timers # {}
  /\ lastDelay = settings.pollInterval

\* C17: a markSynced call for an id already in the ledger leaves the whole
\* ledger as it was (records, their locations and syncedAt, lastSyncTime)
\* and returns without persisting.
C17_DuplicateMarkNoOp ==
  [][(/\ now' = now
      /\ lastOp'.op = "markSynced"
      /\ lastOp'.present) =>
        /\ state' = state
        /\ defaultJobs' = defaultJobs
        /\ ~lastOp'.persisted]_vars

\* A duplicate mark, later and with another location than the record's.
C17_Witness ==
  /\ lastOp.op = "markSynced"
  /\ lastOp.present
  /\ \E k \in 1..Len(state.syncedJobs) :
       /\ state.syncedJobs[k].jobId = lastOp.jobId
       /\ state.syncedJobs[k].notePath # lastOp.path
       /\ state.syncedJobs[k].syncedAt < now
       /\ state.lastSyncTime < now

C19_PrunePersistsIffChanged ==
  [][(now' = now /\ lastOp'.op = "prune") =>
       /\ Len(state'.syncedJobs) = Len(state.syncedJobs) =>
            (lastOp'.ret = 0 /\ ~lastOp'.persisted)
       /\ Len(state'.syncedJobs) < Len(state.syncedJobs) => lastOp'.persisted]_vars

\* A prune of a ledger that holds records removed none of them.
C19_Witness ==
  /\ lastOp.op = "prune"
  /\ lastOp.ret = 0
  /\ ~lastOp.persisted
  /\ state.syncedJobs # <<>>

\* The names of the files of the upload, in order, and what a list holds.
UploadNames == [k \in 1..Len(upload.files) |-> k]

ListedIn(list) == {list[i] : i \in 1..Len(list)}

\* C13: once every file went through steps 1 and 2 and some file passed
\* both, finalize has been called exactly once, with exactly the files that
\* passed in their order; the response lists every file that failed step 1
\* or 2, and when finalize succeeded it lists no other file.
C13_FinalizeSurvivors ==
  (upload.pc \in {"finalize", "done"} /\ upload.sent # {}) =>
    /\ Len(upload.finalizeCalls) = 1
    /\ upload.finalizeCalls[1] = SelectSeq(UploadNames, LAMBDA k : k \notin upload.lost)
    /\ upload.pc = "done" =>
         /\ upload.lost \subseteq ListedIn(upload.reported)
         /\ ~upload.finalizeFailed => ListedIn(upload.reported) = upload.lost

\* Three files, the second one failed, finalize created two jobs.
C13_Witness ==
  /\ upload.pc = "done"
  /\ Len(upload.files) = 3
  /\ upload.lost = {2}
  /\ ~upload.finalizeFailed
  /\ Len(upload.jobIds) = 2
  /\ upload.reported = <<2>>

\* C14: when some file was transferred and finalize failed, the response
\* has no job id and its failed list holds every file of the upload.
C14_FinalizeFailureFailsAll ==
  (upload.pc = "done" /\ upload.sent # {} /\ upload.finalizeFailed) =>
    /\ upload.jobIds = <<>>
    /\ ListedIn(upload.reported) = ListedIn(UploadNames)
    /\ Len(upload.reported) = Len(upload.files)

\* Finalize failed after one file was lost in the loop and another transferred.
C14_Witness ==
  /\ upload.pc = "done"
  /\ upload.finalizeFailed
  /\ upload.lost # {}
  /\ upload.sent # {}

\* C15: as long as no file passed both steps, finalize is not called, and
\* the upload returns with an empty job id list; the empty upload included.
C15_NoSurvivorNoFinalize ==
  upload.sent = {} =>
    /\ upload.finalizeCalls = <<>>
    /\ upload.pc # "finalize"
    /\ upload.jobIds = <<>>

\* An upload of two files or more returned after every file failed.
C15_Witness ==
  /\ upload.pc = "done"
  /\ Len(upload.files) >= 2
  /\ upload.lost = ListedIn(UploadNames)
  /\ upload.finalizeCalls = <<>>

\* C16: no signed URL is requested for a file larger than the maximum file
\* size, and none for more files than the maximum batch size.
C16_LimitsBeforeStep1 ==
  /\ \A i \in 1..Len(upload.urlRequests) : upload.urlRequests[i].size <= MAX_FILE_SIZE
  /\ Len(upload.urlRequests) <= MAX_BATCH_SIZE

\* C20: in the step in which a ledger method that changed the in-memory
\* state returns successfully, the data file equals the in-memory state.
C20_WriteThrough ==
  [][(/\ store.writes # <<>>
      /\ Len(store'.writes) < Len(store.writes)
      /\ store'.result = "ok"
      /\ Head(store.writes).changed) => store'.disk = InMemory']_vars

\* C21 (as stated): removeSynced removes the record of the id and keeps the
\* others; for an id without a record the state is unchanged and nothing is
\* written to the data file.
C21_RemoveNoOpWhenAbsent ==
  [][(now' = now /\ lastOp'.op = "removeSynced") =>
       /\ state'.syncedJobs = SelectSeq(state.syncedJobs,
                                LAMBDA r : r.jobId # lastOp'.jobId)
       /\ ~lastOp'.present => (state' = state /\ ~lastOp'.persisted)]_vars

\* C21 (amended): removeSynced keeps exactly the records of the other ids, in
\* order, leaves lastSyncTime alone, and writes the data file on every call,
\* for an id without a record too.
C21_RemoveFiltersAndPersists ==
  [][(now' = now /\ lastOp'.op = "removeSynced") =>
       /\ state'.syncedJobs = SelectSeq(state.syncedJobs,
                                LAMBDA r : r.jobId # lastOp'.jobId)
       /\ state'.lastSyncTime = state.lastSyncTime
       /\ lastOp'.persisted]_vars

\* removeSynced was called for an id without a record while the ledger held
\* the record of another id, and it wrote the data file.
C21_Witness ==
  /\ lastOp.op = "removeSynced"
  /\ ~lastOp.present
  /\ lastOp.persisted
  /\ state.syncedJobs # <<>>
  /\ ~isSyncedIn(state.syncedJobs, lastOp.jobId)

\* C24: a timer that fires while the scheduler is paused starts no cycle (no
\* request is made) and arms the next timer; pause() and resume() change the
\* paused flag only: no timer is armed or cleared, the delay and intervalId
\* are left alone, and a cycle in flight is left to run.
C24_PausedPollIsNoOp ==
  [][/\ (poller.isPaused /\ TimerFires) =>
          /\ tasks' = tasks
          /\ poller'.intervalId \in timers'
          /\ Cardinality(timers') = Cardinality(timers)
          /\ lastDelay' = Delay(settings.pollInterval, poller.consecutiveErrors)
          /\ poller'.isPaused
     /\ (Pause \/ Resume) =>
          /\ timers' = timers
          /\ lastDelay' = lastDelay
          /\ tasks' = tasks
          /\ poller' = [poller EXCEPT !.isPaused = poller'.isPaused]]_vars

\* The scheduler is paused while a scheduled cycle, already past its listing,
\* is in flight and a timer is armed.
C24_Witness ==
  /\ poller.isPaused
  /\ poller.isPolling
  /\ poller.intervalId \in timers
  /\ \E t \in Slots : tasks[t].kind = "poll" /\ tasks[t].pc = "createNote"

\* C25: start() with auto-sync disabled changes nothing; with auto-sync
\* enabled and no timer armed it arms one timer whose delay is the configured
\* poll interval, whatever came before.
C25_StartArmsConfiguredInterval ==
  [][Start =>
       IF ~settings.autoSync
       THEN UNCHANGED <<poller, timers, lastDelay, tasks>>
       ELSE timers = {} =>
              /\ Cardinality(timers') = 1
              /\ lastDelay' = settings.pollInterval]_vars

\* C26: resumeAfterError() changes nothing unless the scheduler is stopped on
\* error; stopped on error (auto-sync enabled) it sets the counter to 0, clears
\* the flag and leaves a timer armed whose delay is the configured interval.
C26_ResumeReschedules ==
  [][ResumeAfterError =>
       IF ~poller.isStopped
       THEN UNCHANGED <<poller, timers, lastDelay, tasks>>
       ELSE /\ poller'.consecutiveErrors = 0
            /\ ~poller'.isStopped
            /\ settings.autoSync =>
                 /\ poller'.intervalId \in timers'
                 /\ lastDelay' = settings.pollInterval]_vars

RecordsIn(jobs, j) == {k \in 1..Len(jobs) : jobs[k].jobId = j}

\* C29: the ledger gains a record for job j only in the step in which
\* createNote returned a path for j to a cycle whose current job is j, the
\* record holds that path, and a step in which the fetch or createNote failed
\* adds no record.
C29_RecordOnlyAfterCreate ==
  [][/\ \A j \in JobIds :
          Cardinality(RecordsIn(state'.syncedJobs, j))
            > Cardinality(RecordsIn(state.syncedJobs, j)) =>
          \E t \in Slots :
            /\ tasks[t].pc = "createNote"
            /\ CurJob(t) = j
            /\ tasks'[t].pc = "saveData"
            /\ tasks'[t].path \in Paths
            /\ state'.syncedJobs =
                 Append(state.syncedJobs,
                        [jobId |-> j, syncedAt |-> now, notePath |-> tasks'[t].path])
     /\ (GetResultFail \/ CreateNoteFail) =>
          \A j \in JobIds :
            Cardinality(RecordsIn(state'.syncedJobs, j))
              <= Cardinality(RecordsIn(state.syncedJobs, j))]_vars

\* A cycle whose first job failed has created the note of its second job:
\* the ledger holds the record of the second job only, with the path returned.
C29_Witness ==
  \E t \in Slots :
    /\ tasks[t].pc = "saveData"
    /\ tasks[t].i = 2
    /\ ~tasks[t].results[1].success
    /\ Len(state.syncedJobs) = 1
    /\ state.syncedJobs[1].jobId = CurJob(t)
    /\ state.syncedJobs[1].notePath = tasks[t].path

\* C22: the paths createNote returned for results with one base name are
\* pairwise distinct, none is a file the folder already held, and every
\* write goes to a path at which no file exists.
C22_DistinctPaths ==
  /\ [](/\ \A i, j \in 1..Len(notes.created) :
              i # j => notes.created[i] # notes.created[j]
        /\ \A i \in 1..Len(notes.created) : notes.created[i] \notin notes.pre)
  /\ [][notes'.vault # notes.vault =>
          /\ notes.newPath \notin notes.vault
          /\ notes'.vault = notes.vault \cup {notes.newPath}
          /\ notes'.created = Append(notes.created, notes.newPath)]_vars

\* A hundred notes were created in a folder that held none of the paths.
C22_Witness ==
  /\ notes.pre = {}
  /\ Len(notes.created) = 100
  /\ notes.last = "ok"

\* C23 (as stated): of 101 results with one base name created one after
\* another in a folder holding none of the paths, the 101st fails with the
\* explicit error.
C23_Fails101st ==
  (notes.pre = {} /\ notes.failures = 0 /\ notes.calls = 101 /\ notes.pc = "idle")
    => notes.last = "thrown"

\* C23 (amended): getUniquePath throws exactly when the base path and the
\* suffixes 1..100 all exist, after at most 100 increments of the counter; in
\* a folder holding none of the paths the first 101 notes get the base path
\* and the suffixes 1..100 in order, and only the next createNote fails.
C23_Fails102nd ==
  /\ [](/\ notes.counter <= COUNTER_LIMIT + 1
        /\ notes.last = "thrown" => notes.vault = 0..COUNTER_LIMIT
        /\ notes.pre = {} =>
             /\ Len(notes.created) <= COUNTER_LIMIT + 1
             /\ \A i \in 1..Len(notes.created) : notes.created[i] = i - 1)
  /\ [][notes'.calls # notes.calls =>
          (notes'.last = "thrown" <=> \A n \in 0..COUNTER_LIMIT : n \in notes.vault)]_vars

\* In a folder that held none of the paths 101 notes were created and the
\* 102nd createNote failed with the explicit error.
C23_Witness ==
  /\ notes.pre = {}
  /\ Len(notes.created) = 101
  /\ notes.calls = 102
  /\ notes.last = "thrown"

\* C27: for an error response (status 400 and up) the error kind is the kind of the code in the
\* structured body when there is one, else the kind listed for the status
\* (401, 404, 400, 429, 413, 409, 410), else Internal; both for the client's
\* request and for the parser called on the response.
C27_KindByBodyElseStatus ==
  (rq.op \in {"request", "parseApiError"} /\ rq.transport /\ rq.status >= 400) =>
    rq.kind = IF rq.body.shape = "nested" THEN rq.body.code
              ELSE CASE rq.status = 401 -> "INVALID_API_KEY"
                     [] rq.status = 404 -> "NOT_FOUND"
                     [] rq.status = 400 -> "VALIDATION_ERROR"
                     [] rq.status = 429 -> "RATE_LIMIT_EXCEEDED"
                     [] rq.status = 413 -> "FILE_TOO_LARGE"
                     [] rq.status = 409 -> "JOB_NOT_FAILED"
                     [] rq.status = 410 -> "IMAGE_EXPIRED"
                     [] OTHER -> "INTERNAL_ERROR"

\* C28: a request whose transport failed ends with an error of the Network
\* kind, and a request the server answered never does.
C28_TransportIsNetworkKind ==
  rq.op = "request" =>
    /\ ~rq.transport => (rq.outcome = "threw" /\ rq.kind = "NETWORK_ERROR")
    /\ rq.transport => rq.kind # "NETWORK_ERROR"

\* C30: a cycle keeps exactly the listed jobs that have no record in the
\* ledger when the list is filtered; the SyncResult it returns has one entry
\* for each of them, in order; syncedCount + failedCount is their number and
\* syncedCount is the number of entries marked success.
C30_ResultCoversUnsynced ==
  /\ [](LET r == log.result IN
        /\ Len(r.results) = Len(log.jobs)
        /\ \A k \in 1..Len(r.results) : r.results[k].jobId = log.jobs[k]
        /\ r.syncedCount + r.failedCount = Len(log.jobs)
        /\ r.syncedCount = Cardinality({k \in 1..Len(r.results) : r.results[k].success})
        /\ r.failedCount = Cardinality({k \in 1..Len(r.results) : ~r.results[k].success}))
  /\ [][/\ \A t \in Slots :
             (tasks[t].pc = "getJobs" /\ tasks'[t].pc = "getResult") =>
               tasks'[t].jobs =
                 SelectSeq(tasks'[t].listed,
                           LAMBDA j : \A k \in 1..Len(state.syncedJobs) :
                                        state.syncedJobs[k].jobId # j)
        /\ log'.flip # log.flip =>
             \E t \in Slots :
               /\ Active(t)
               /\ ~Active(t)'
               /\ IF tasks[t].pc = "getJobs"
                  THEN /\ log'.jobs = <<>>
                       /\ \A i \in 1..Len(log'.listed) :
                            \E k \in 1..Len(state.syncedJobs) :
                              state.syncedJobs[k].jobId = log'.listed[i]
                  ELSE /\ log'.jobs = tasks[t].jobs
                       /\ log'.listed = tasks[t].listed
                       /\ tasks[t].i = Len(tasks[t].jobs)
        /\ \A t \in Slots :
             (InLoop(tasks[t]) /\ ~Active(t)') => log'.flip # log.flip]_vars

\* A cycle listed two jobs, one of which had a record; it kept the other,
\* whose sync failed, and returned one failed entry.
C30_Witness ==
  /\ Len(log.listed) = 2
  /\ Len(log.jobs) = 1
  /\ log.result.syncedCount = 0
  /\ log.result.failedCount = 1
  /\ Len(log.result.results) = 1
  /\ isSynced(Ledger, log.listed[1])

\* C31: the consecutive-error counter of the scheduler never exceeds 5.
C31_CounterAtMostFive == poller.consecutiveErrors <= MAX_CONSECUTIVE_ERRORS

\* C32: right after clear() the ledger is empty: it holds no record, no id
\* is synced and lastSyncTime is null, whatever calls came before.
C32_ClearEmpties ==
  lastOp.op = "clear" =>
    /\ Len(state.syncedJobs) = 0
    /\ \A j \in JobIds : ~isSynced(Ledger, j)
    /\ state.lastSyncTime = NoTime

\* C35: a step in which the save markSynced awaits (the ledger persisted
\* through the persistence callback) resolves, and in which no cycle ends, leaves the armed timers, their delay,
\* the consecutive-error counter and the stopped flag as they were.
C35_PersistLeavesScheduler ==
  [][(SaveDataOk /\ \A t \in Slots : Active(t) => Active(t)') =>
       /\ timers' = timers
       /\ lastDelay' = lastDelay
       /\ poller'.consecutiveErrors = poller.consecutiveErrors
       /\ poller'.isStopped = poller.isStopped]_vars

\* C36: isRunning() is true exactly when a timer is armed or a scheduled
\* cycle is in flight, and it is false while the scheduler is stopped on
\* errors.
C36_RunningIffArmedOrPolling ==
  /\ isRunning(Sched) <=>
       (timers # {} \/ \E t \in Slots : Active(t) /\ tasks[t].kind = "poll")
  /\ poller.isStopped => ~isRunning(Sched)

\* C37: when the list call of a manual syncNow rejects, syncNow ends without
\* returning a SyncResult (the rejection goes to the caller), the polling
\* flag is cleared so that the guards of poll() and syncNow() are open again,
\* and the error counter, the stopped flag, the timers and the ledger are
\* unchanged.
C37_ManualListFailure ==
  [][\A t \in Slots :
       (/\ tasks[t].kind = "syncNow"
        /\ tasks[t].pc = "getJobs"
        /\ ~Active(t)'
        /\ log'.flip = log.flip) =>
         /\ log'.error = "syncNow"
         /\ ~poller'.isPolling
         /\ syncNowGuard(Sched')
         /\ poller'.consecutiveErrors = poller.consecutiveErrors
         /\ poller'.isStopped = poller.isStopped
         /\ timers' = timers
         /\ state' = state]_vars

\* The list call of a manual sync failed after a scheduled cycle had failed:
\* the counter still stands at one and no cycle is in flight.
C37_Witness ==
  /\ log.error = "syncNow"
  /\ ~poller.isPolling
  /\ poller.consecutiveErrors = 1
  /\ \A t \in Slots : ~Active(t)

\* C33: the step in which the fetch or createNote of a job fails leaves the
\* job without a record; a cycle keeps every listed job that has no record
\* when the list is filtered; and a cycle goes through its kept jobs one by
\* one, ending only after the last, so that each kept job is attempted.
C33_FailedJobRetried ==
  [][\A t \in Slots :
       /\ ((GetResultFail \/ CreateNoteFail) /\ InLoop(tasks[t]) /\ tasks'[t] # tasks[t]) =>
            ~isSyncedIn(state'.syncedJobs, CurJob(t))
       /\ (tasks[t].pc = "getJobs" /\ tasks'[t].pc = "getResult") =>
            /\ tasks'[t].i = 1
            /\ \A k \in 1..Len(tasks'[t].listed) :
                 ~isSyncedIn(state.syncedJobs, tasks'[t].listed[k]) =>
                   \E m \in 1..Len(tasks'[t].jobs) :
                     tasks'[t].jobs[m] = tasks'[t].listed[k]
       /\ (InLoop(tasks[t]) /\ tasks'[t] # tasks[t]) =>
            \/ tasks'[t].i = tasks[t].i /\ InLoop(tasks'[t]) /\ tasks'[t].pc # "getResult"
            \/ tasks'[t].i = tasks[t].i + 1 /\ tasks'[t].pc = "getResult"
                  /\ tasks'[t].i <= Len(tasks'[t].jobs)
            \/ ~Active(t)' /\ tasks[t].i = Len(tasks[t].jobs)]_vars

\* The latest finished cycle reported a job failed; the job has no record and
\* the next cycle that listed it is fetching its result again.
C33_Witness ==
  \E t \in Slots, k \in 1..Len(log.result.results) :
    /\ ~log.result.results[k].success
    /\ tasks[t].pc = "getResult"
    /\ CurJob(t) = log.result.results[k].jobId
    /\ ~isSynced(Ledger, CurJob(t))

\* C34: the step in which the save awaited by markSynced for a new id
\* rejects, the job is reported failed and the cycle goes on to its next
\* job, leaves the id without a record in the in-memory ledger.
C34_FailedSaveNotRecorded ==
  [][\A t \in Slots :
       (SaveDataFail /\ tasks[t].pc = "saveData" /\ tasks'[t].i = tasks[t].i + 1) =>
         ~isSyncedIn(state'.syncedJobs, CurJob(t))]_vars

\* C39: in the delete action a note file or a ledger record goes away only in
\* a step at whose end the backend no longer holds the job; the step in which
\* deleteJob fails changes neither the vault nor the ledger nor the list shown.
C39_DeleteAfterRemote ==
  [][/\ (del.pc # "idle"
         /\ (del'.vault # del.vault
               \/ Len(state'.syncedJobs) < Len(state.syncedJobs)
               \/ del'.jobs # del.jobs)) =>
          /\ del.job \notin del'.remote
          /\ del.vault \ del'.vault \subseteq {del.notePath}
          /\ del.jobs \ del'.jobs \subseteq {del.job}
          /\ \A k \in 1..Len(state.syncedJobs) :
               state.syncedJobs[k].jobId # del.job =>
                 isSyncedIn(state'.syncedJobs, state.syncedJobs[k].jobId)
     /\ (del.pc = "deleteJob" /\ del'.job \in del'.remote /\ del' # del) =>
          /\ del'.pc = "idle"
          /\ del'.last = "deleteFailed"
          /\ del'.vault = del.vault
          /\ del'.jobs = del.jobs
          /\ state' = state]_vars

\* deleteJob failed for a job that has a record and a note: the record, the
\* note file and the job in the list are all still there.
C39_Witness ==
  /\ del.pc = "idle"
  /\ del.last = "deleteFailed"
  /\ del.notePath \in del.vault
  /\ \E k \in 1..Len(state.syncedJobs) :
       state.syncedJobs[k].jobId = del.job /\ state.syncedJobs[k].notePath = del.notePath
  /\ del.job \in del.jobs

\* C40: the base filename generateFilename returns (the name without its .md
\* extension) is non-empty, at most 100 characters long, holds none of the
\* characters \ / : * ? " < > |, and neither begins nor ends with a dot.
C40_BaseFilenameClean ==
  fn.filename # <<>> =>
    LET base == SubSeq(fn.filename, 1, Len(fn.filename) - 3) IN
    /\ Len(base) >= 1
    /\ Len(base) <= 100
    /\ \A i \in 1..Len(base) :
         base[i] \notin {"\\", "/", ":", "*", "?", "\"", "<", ">", "|"}
    /\ base[1] # "."
    /\ base[Len(base)] # "."

\* C38: with auto-sync on, the scheduler started and never paused or stopped,
\* timers firing and remote calls completing, every job that the remote
\* lists as completed and whose result fetch and note creation eventually
\* succeed is eventually recorded in the ledger.
C38_EventuallyRecorded == \A j \in JobIds : <>isSynced(Ledger, j)

\* A job is recorded by a scheduled cycle that follows a failed list call.
C38_Witness ==
  \E t \in Slots, j \in JobIds :
    /\ tasks[t].kind = "poll" /\ tasks[t].pc = "saveData" /\ CurJob(t) = j
    /\ isSynced(Ledger, j)
    /\ poller.consecutiveErrors > 0

====
